---- MODULE Spec2Model ----
(***************************************************************************)
(* Model of src/features/impl_alloc.rs of bincode: the VecWriter, and the  *)
(* Encode / Decode implementations of the alloc containers (Vec, VecDeque, *)
(* BinaryHeap, BTreeMap, BTreeSet, Box<[T]>, String, Box, Rc, Arc, Cow).   *)
(*                                                                         *)
(* A decode is a call tree; the model keeps it as a stack of frames, one   *)
(* per active `decode` call, and moves the top frame one statement at a    *)
(* time.  A type is a sequence of shape names: <<"Vec","Vec","u8">> is     *)
(* Vec<Vec<u8>>, <<"BTreeMap","u8">> is BTreeMap<u8, u8>.                   *)
(***************************************************************************)
EXTENDS Integers, Sequences, FiniteSets, TLC

\* ---------------------------------------------------------------- bounds
\* Longest input handed to a decode session.
MaxInput == 4
\* Most items of a value that is encoded.
MaxItems == 3
\* Most write calls of a writer session.
MaxWrites == 3

\* Bytes of the inputs: 0..2 are small lengths and ordered elements, 195
\* (0xC3) is a forged large length and, as text, a truncated UTF-8 sequence.
Bytes == {0, 1, 2, 195}
\* Elements of the values that are encoded.
Items == {0, 1, 2}
\* Ceilings of the decode budget: tight, room for two Vec headers, ample.
Limits == {1, 50, 1000}

VARIABLES
    mode,        \* "decode" | "roundtrip" | "writer": what the session does
    ty,          \* the type decoded / encoded
    input,       \* bytes the reader has not consumed yet
    limit,       \* ceiling of the decode budget
    bytes_read,  \* the decoder's outstanding claimed amount
    stack,       \* active decode calls, innermost last
    ret,         \* what the call that just returned handed to its caller
    status,      \* "encoding" | "encode_failed" | "running" | "returned" |
                 \* "aborted" (the process was aborted) | "idle"
    done,        \* log of the decode calls that have exited, in exit order
    seed,        \* the insertions that built the value being encoded
    value,       \* the value being encoded (round trip)
    todo,        \* write calls the encode still has to make
    inner,       \* VecWriter.inner
    wres,        \* result of the last VecWriter::write / of the encode
    wlog,        \* byte sequences written successfully, in call order
    nextPtr,     \* allocations handed out so far by Box/Rc/Arc::try_new
    heap,        \* heap[p]: the value now stored in allocation p
    orig,        \* the whole input of the decode
    first        \* result of the first decode, once the input is decoded again

vars == <<mode, ty, input, limit, bytes_read, stack, ret, status, done,
          seed, value, todo, inner, wres, wlog, nextPtr, heap, orig, first>>

decVars == <<input, limit, bytes_read, stack, ret, done, nextPtr, heap, orig, first>>
\* What no statement of a decode changes, the allocating ones apart.
sessVars == <<heap, orig, first>>
encVars == <<seed, value, todo, inner, wres, wlog>>

\* ----------------------------------------------------------------- types
LenPrefixed == {"Vec", "VecDeque", "BinaryHeap", "BTreeMap", "BTreeSet", "BoxSlice"}
Pointers == {"Box", "Rc", "Arc"}
Guarded == {"Vec", "BoxSlice"}

Shape(t) == Head(t)

\* core::mem::size_of::<T>() on a 64-bit target; the amount of a claim's
\* per-element slice.  A BTreeMap frame claims for the pair (K, V), K = u8.
SizeOfType(t) ==
    CASE Shape(t) = "u8" -> 1
      [] Shape(t) \in {"Vec", "BinaryHeap", "BTreeMap", "BTreeSet", "String"} -> 24
      [] Shape(t) = "VecDeque" -> 32
      [] Shape(t) = "BoxSlice" -> 16
      [] Shape(t) = "Cow" -> 16
      [] OTHER -> 8

PairSize(t) == IF Shape(t) = "u8" THEN 2 ELSE 8 + SizeOfType(t)

ElemSize(t) ==
    IF Shape(t) = "BTreeMap" THEN PairSize(Tail(t)) ELSE SizeOfType(Tail(t))

\* ---------------------------------------------------------------- results
NoRet == [kind |-> "None", err |-> "", val |-> <<>>]
Ok(v) == [kind |-> "Ok", err |-> "", val |-> <<v>>]
Err(e) == [kind |-> "Err", err |-> e, val |-> <<>>]

\* ----------------------------------------------------- decoder (budget)
\* claim_bytes_read: debit n, or fail without changing the budget.
ClaimFits(n) == bytes_read + n <= limit

\* ------------------------------------------------------------- containers
Swap(h, i, j) == [h EXCEPT ![i] = h[j], ![j] = h[i]]

RECURSIVE SiftUp(_, _)
SiftUp(h, pos) ==
    IF pos = 1 THEN h
    ELSE LET parent == pos \div 2 IN
         IF h[pos] <= h[parent] THEN h
         ELSE SiftUp(Swap(h, pos, parent), parent)

\* BinaryHeap::push: append, then sift the new element up.
HeapPush(h, x) == SiftUp(Append(h, x), Len(h) + 1)

InsertAt(s, p, x) == SubSeq(s, 1, p - 1) \o <<x>> \o SubSeq(s, p, Len(s))

\* Mutant: the set keeps insertion order.
SetInsertUnordered(s, x) ==
    IF \E i \in 1..Len(s) : s[i] = x THEN s ELSE Append(s, x)

\* BTreeSet::insert on the set kept as its ascending iteration order.
SetInsert(s, x) ==
    IF \E i \in 1..Len(s) : s[i] = x THEN s
    ELSE InsertAt(s, 1 + Cardinality({i \in 1..Len(s) : s[i] < x}), x)

\* Mutant: a key that is present keeps its value.
MapInsertKeepFirst(s, k, v) ==
    IF \E i \in 1..Len(s) : s[i][1] = k
    THEN s
    ELSE InsertAt(s, 1 + Cardinality({i \in 1..Len(s) : s[i][1] < k}), <<k, v>>)

\* BTreeMap::insert on the map kept as its ascending sequence of <<key, value>>.
MapInsert(s, k, v) ==
    IF \E i \in 1..Len(s) : s[i][1] = k
    THEN [i \in 1..Len(s) |-> IF s[i][1] = k THEN <<k, v>> ELSE s[i]]
    ELSE InsertAt(s, 1 + Cardinality({i \in 1..Len(s) : s[i][1] < k}), <<k, v>>)

\* ----------------------------------------------------------------- frames
NewFrame(t) ==
    [ty |-> t,
     pc |-> IF Shape(t) \in LenPrefixed THEN "len" ELSE "elem",
     len |-> 0,          \* the decoded element count
     idx |-> 0,          \* guard.idx / guard.initialized / the loop counter
     buf |-> <<>>,       \* slots (<<>> uninitialised, <<v>> written) or the container
     guard |-> "none",   \* "none" | "armed" | "disarmed" | "unwound"
     cur |-> <<>>,       \* decoded values not yet inserted
     drops |-> <<>>,     \* per slot, how many times it was destroyed
     alloc |-> 0,        \* buffers obtained
     freed |-> 0,        \* buffers given back
     claimed |-> 0,      \* amount this call claimed
     rel |-> 0,          \* releases this call made
     resv |-> 0,         \* reservations this call attempted
     tries |-> 0,        \* element decodes this call started
     made |-> 0,         \* elements this call constructed
     got |-> <<>>,       \* the values its element decodes returned, in order
     relAmt |-> 0,       \* amount this call released
     live |-> FALSE,     \* the container under construction is in scope
     exit |-> "",        \* "Ok" or the error, once the call has exited
     at |-> ""]          \* the statement the call exited from

Top == stack[Len(stack)]
Pop == SubSeq(stack, 1, Len(stack) - 1)
SetTop(f) == [stack EXCEPT ![Len(stack)] = f]

\* Mutant: the buffer is reserved before the budget is asked.
StmtOrderReserveFirst == <<"len", "reserve", "claim", "loop">>

\* The statements of a length-prefixed decode up to its loop, in source order.
StmtOrder == <<"len", "claim", "reserve", "loop">>
After(pc) == StmtOrder[1 + CHOOSE i \in 1..Len(StmtOrder) : StmtOrder[i] = pc]

\* The type decoded by the statement the frame is at.
InnerType(f) ==
    CASE Shape(f.ty) = "String" -> <<"Vec", "u8">>
      [] Shape(f.ty) = "BTreeMap" /\ f.pc = "elem" -> <<"u8">>
      [] OTHER -> Tail(f.ty)

\* The statement that follows a successful element decode.
AfterElem(f) ==
    CASE Shape(f.ty) = "BTreeMap" /\ f.pc = "elem" -> "val"
      [] Shape(f.ty) \in LenPrefixed -> "insert"
      [] Shape(f.ty) = "String" -> "utf8"
      [] Shape(f.ty) = "Cow" -> "own"
      [] OTHER -> "alloc"

\* Mutant: the guard drops the slot being decoded too (`..=self.idx`).
VecGuardRangeInclusive(f) == 1..(f.idx + 1)

\* Guard::drop of Vec<T>::decode: the slots `&mut self.slice[..self.idx]`.
VecGuardRange(f) == 1..f.idx
\* Guard::drop of Box<[T]>::decode: `get_unchecked_mut(..self.initialized)`.
BoxGuardRange(f) == 1..f.idx

GuardRange(f) == IF Shape(f.ty) = "Vec" THEN VecGuardRange(f) ELSE BoxGuardRange(f)

\* drop_in_place on every slot of the guard's range.
GuardDrop(f) ==
    [i \in 1..Len(f.drops) |-> f.drops[i] + (IF i \in GuardRange(f) THEN 1 ELSE 0)]

\* What leaving the call by `?` does to its locals: the guard (declared last)
\* drops first, then the container; a container that is not yet in scope, or
\* a wrapper's frame, has nothing to drop.
Unwind(f, e) ==
    LET g == [f EXCEPT !.exit = e, !.at = f.pc] IN
    IF ~f.live THEN g
    ELSE IF Shape(f.ty) \in Guarded
    THEN [g EXCEPT !.drops = GuardDrop(f), !.guard = "unwound",
                   !.freed = f.freed + f.alloc, !.live = FALSE]
    ELSE [g EXCEPT !.drops = [i \in 1..Len(f.buf) |-> 1],
                   !.freed = f.freed + f.alloc, !.live = FALSE]

\* The value a slot holds when it is read as initialised.
Uninit == 255
SlotValue(slot) == IF slot = <<>> THEN Uninit ELSE slot[1]

\* The finished container: vec.set_len(len) / Box::from_raw_in over the slots,
\* or the collection itself.
Finished(f) ==
    IF Shape(f.ty) \in Guarded
    THEN [i \in 1..f.len |-> SlotValue(f.buf[i])]
    ELSE f.buf

\* `return Err(e)` / `?` from the top call.
FailWith(f, e) ==
    /\ stack' = Pop
    /\ done' = Append(done, Unwind(f, e))
    /\ ret' = Err(e)
    /\ status' = IF Len(stack) = 1 THEN "returned" ELSE status

\* `Ok(v)` from the top call.
ReturnWith(f, v) ==
    /\ stack' = Pop
    /\ done' = Append(done, [f EXCEPT !.exit = "Ok", !.at = f.pc, !.live = FALSE])
    /\ ret' = Ok(v)
    /\ status' = IF Len(stack) = 1 THEN "returned" ELSE status

Running == status = "running" /\ stack # <<>>

\* ------------------------------------------------------- decode statements
\* let len = decode_slice_len(decoder)?;
DecodeSliceLen ==
    /\ Running /\ Top.pc = "len" /\ ret.kind = "None"
    /\ IF input = <<>>
       THEN /\ FailWith(Top, "UnexpectedEnd")
            /\ UNCHANGED input
       ELSE /\ input' = Tail(input)
            /\ stack' = SetTop([Top EXCEPT !.len = Head(input), !.pc = After("len")])
            /\ UNCHANGED <<done, ret, status>>
    /\ UNCHANGED <<mode, ty, limit, bytes_read, nextPtr>>
    /\ UNCHANGED encVars /\ UNCHANGED sessVars

\* Mutant: the result of the claim is dropped (`?` missing).
ClaimContainerReadIgnored ==
    /\ Running /\ Top.pc = "claim"
    /\ LET amount == Top.len * ElemSize(Top.ty) IN
       IF ClaimFits(amount)
       THEN /\ bytes_read' = bytes_read + amount
            /\ stack' = SetTop([Top EXCEPT !.claimed = amount, !.pc = After("claim")])
       ELSE /\ stack' = SetTop([Top EXCEPT !.pc = After("claim")])
            /\ UNCHANGED bytes_read
    /\ UNCHANGED <<mode, ty, input, limit, nextPtr, done, ret, status>>
    /\ UNCHANGED encVars /\ UNCHANGED sessVars

\* decoder.claim_container_read::<T>(len)?;
ClaimContainerRead ==
    /\ Running /\ Top.pc = "claim"
    /\ LET amount == Top.len * ElemSize(Top.ty) IN
       IF ClaimFits(amount)
       THEN /\ bytes_read' = bytes_read + amount
            /\ stack' = SetTop([Top EXCEPT !.claimed = amount, !.pc = After("claim")])
            /\ UNCHANGED <<done, ret, status>>
       ELSE /\ FailWith(Top, "LimitExceeded")
            /\ UNCHANGED bytes_read
    /\ UNCHANGED <<mode, ty, input, limit, nextPtr>>
    /\ UNCHANGED encVars /\ UNCHANGED sessVars

\* How each shape obtains its buffer, and what a failure of that becomes.
ReserveCall(s) ==
    CASE s \in {"Vec", "VecDeque"} -> "try_reserve"
      [] s = "BoxSlice" -> "try_new_uninit_slice"
      [] s = "BinaryHeap" -> "reserve"
      [] OTHER -> "new"

\* Mutant: every buffer failure is reported as a failed reservation.
ReserveErrorTryReserve(s) == "OutOfMemory::TryReserve"

\* map_err(|inner| OutOfMemory::TryReserve { inner }) / map_err(|_| OutOfMemory::Alloc)
ReserveError(s) ==
    IF s = "BoxSlice" THEN "OutOfMemory::Alloc" ELSE "OutOfMemory::TryReserve"

\* A request for no elements obtains nothing and cannot fail.
ReserveOutcomes(f) ==
    IF ReserveCall(Shape(f.ty)) = "new" \/ f.len = 0 THEN {TRUE} ELSE BOOLEAN

\* Vec::new() + try_reserve(len) / Box::try_new_uninit_slice(len) /
\* BinaryHeap::new() + reserve(len) / BTreeMap::new(), and the guard over it.
Reserve ==
    /\ Running /\ Top.pc = "reserve"
    /\ \E ok \in ReserveOutcomes(Top) :
       LET f == Top
           s == Shape(f.ty)
           tried == IF ReserveCall(s) = "new" THEN f.resv ELSE f.resv + 1
       IN
       IF ok
       THEN /\ stack' = SetTop([f EXCEPT
                   !.resv = tried,
                   !.alloc = IF ReserveCall(s) = "new" \/ f.len = 0 THEN 0 ELSE 1,
                   !.buf = IF s \in Guarded THEN [i \in 1..f.len |-> <<>>] ELSE <<>>,
                   !.drops = IF s \in Guarded THEN [i \in 1..f.len |-> 0] ELSE <<>>,
                   !.guard = IF s \in Guarded THEN "armed" ELSE "none",
                   !.live = TRUE,
                   !.pc = After("reserve")])
            /\ UNCHANGED <<done, ret, status>>
       ELSE IF ReserveCall(s) = "reserve"
       THEN /\ status' = "aborted"
            /\ stack' = SetTop([f EXCEPT !.resv = tried])
            /\ UNCHANGED <<done, ret>>
       ELSE FailWith([f EXCEPT !.resv = tried], ReserveError(s))
    /\ UNCHANGED <<mode, ty, input, limit, bytes_read, nextPtr>>
    /\ UNCHANGED encVars /\ UNCHANGED sessVars

\* Mutant: every release hands back one machine word.
ReleaseSizeWord(t) == 8

\* The size_of::<T>() / size_of::<(K, V)>() handed to unclaim_bytes_read.
ReleaseSize(t) ==
    IF Shape(t) = "BTreeMap" THEN PairSize(Tail(t)) ELSE SizeOfType(Tail(t))

\* Mutant: the loop body starts without the release.
LoopReleaseMissing ==
    /\ Running /\ Top.pc = "loop" /\ Top.idx < Top.len
    /\ stack' = SetTop([Top EXCEPT !.pc = "elem"])
    /\ UNCHANGED <<mode, ty, input, limit, bytes_read, ret, status, done, nextPtr>>
    /\ UNCHANGED encVars /\ UNCHANGED sessVars

\* Loop head with elements left: decoder.unclaim_bytes_read(size_of::<T>());
LoopRelease ==
    /\ Running /\ Top.pc = "loop" /\ Top.idx < Top.len
    /\ bytes_read' = bytes_read - ReleaseSize(Top.ty)
    /\ stack' = SetTop([Top EXCEPT !.rel = Top.rel + 1,
                                   !.relAmt = Top.relAmt + ReleaseSize(Top.ty),
                                   !.pc = "elem"])
    /\ UNCHANGED <<mode, ty, input, limit, ret, status, done, nextPtr>>
    /\ UNCHANGED encVars /\ UNCHANGED sessVars

\* Loop done: core::mem::forget(guard); set_len / from_raw_in; Ok(container)
LoopExit ==
    /\ Running /\ Top.pc = "loop" /\ Top.idx >= Top.len
    /\ ReturnWith([Top EXCEPT !.guard = IF Shape(Top.ty) \in Guarded
                                        THEN "disarmed" ELSE "none"],
                  Finished(Top))
    /\ UNCHANGED <<mode, ty, input, limit, bytes_read, nextPtr>>
    /\ UNCHANGED encVars /\ UNCHANGED sessVars

\* T::decode(decoder)? of a u8: claim one byte, then read it.
DecodePrimitive ==
    /\ Running /\ Top.pc \in {"elem", "val"} /\ ret.kind = "None"
    /\ Shape(InnerType(Top)) = "u8"
    /\ LET f == [Top EXCEPT !.tries = Top.tries + 1] IN
       IF ~ClaimFits(1)
       THEN /\ FailWith(f, "LimitExceeded")
            /\ UNCHANGED <<input, bytes_read>>
       ELSE IF input = <<>>
       THEN /\ FailWith(f, "UnexpectedEnd")
            /\ bytes_read' = bytes_read + 1
            /\ UNCHANGED input
       ELSE /\ bytes_read' = bytes_read + 1
            /\ input' = Tail(input)
            /\ stack' = SetTop([f EXCEPT !.cur = Append(f.cur, Head(input)),
                                         !.got = Append(f.got, Head(input)),
                                         !.made = f.made + 1,
                                         !.pc = AfterElem(f)])
            /\ UNCHANGED <<done, ret, status>>
    /\ UNCHANGED <<mode, ty, limit, nextPtr>>
    /\ UNCHANGED encVars /\ UNCHANGED sessVars

\* T::decode(decoder) of a container or wrapper: a new call.
DecodeNested ==
    /\ Running /\ Top.pc \in {"elem", "val"} /\ ret.kind = "None"
    /\ Shape(InnerType(Top)) # "u8"
    /\ stack' = Append(SetTop([Top EXCEPT !.tries = Top.tries + 1]),
                       NewFrame(InnerType(Top)))
    /\ UNCHANGED <<mode, ty, input, limit, bytes_read, ret, status, done, nextPtr>>
    /\ UNCHANGED encVars /\ UNCHANGED sessVars

\* The nested call returned Ok(t).
Resume ==
    /\ Running /\ ret.kind = "Ok"
    /\ stack' = SetTop([Top EXCEPT !.cur = Append(Top.cur, ret.val[1]),
                                   !.got = Append(Top.got, ret.val[1]),
                                   !.made = Top.made + 1,
                                   !.pc = AfterElem(Top)])
    /\ ret' = NoRet
    /\ UNCHANGED <<mode, ty, input, limit, bytes_read, status, done, nextPtr>>
    /\ UNCHANGED encVars /\ UNCHANGED sessVars

\* The nested call returned Err(e): `?` returns it from this call too.
Propagate ==
    /\ Running /\ ret.kind = "Err"
    /\ FailWith(Top, ret.err)
    /\ UNCHANGED <<mode, ty, input, limit, bytes_read, nextPtr>>
    /\ UNCHANGED encVars /\ UNCHANGED sessVars

\* Mutant: the buffer is filled from its last slot down.
SlotWriteFromEnd(f, t) == [f.buf EXCEPT ![f.len - f.idx] = <<t>>]

\* guard.slice[guard.idx].write(t) / get_unchecked_mut(initialized).write(t)
SlotWrite(f, t) == [f.buf EXCEPT ![f.idx + 1] = <<t>>]

\* Mutant: the queue is filled from the front.
PushFront(q, t) == <<t>> \o q

\* VecDeque::push_back
PushBack(q, t) == Append(q, t)

\* The container after the loop body's insert.
Inserted(f) ==
    CASE Shape(f.ty) \in Guarded -> SlotWrite(f, f.cur[1])
      [] Shape(f.ty) = "VecDeque" -> PushBack(f.buf, f.cur[1])
      [] Shape(f.ty) = "BinaryHeap" -> HeapPush(f.buf, f.cur[1])
      [] Shape(f.ty) = "BTreeSet" -> SetInsert(f.buf, f.cur[1])
      [] OTHER -> MapInsert(f.buf, f.cur[1], f.cur[2])

\* A B-tree allocates its first node on the first insert, through the
\* infallible global allocator.
InsertOutcomes(f) ==
    IF Shape(f.ty) \in {"BTreeMap", "BTreeSet"} /\ f.buf = <<>> THEN BOOLEAN ELSE {TRUE}

\* Mutant: the count of written slots is not advanced.
NextIdxStays(f) == f.idx

\* guard.idx += 1 / guard.initialized += 1
NextIdx(f) == f.idx + 1

\* write(t); idx += 1 / push / push_back / insert
Insert ==
    /\ Running /\ Top.pc = "insert"
    /\ \E ok \in InsertOutcomes(Top) :
       IF ok
       THEN /\ stack' = SetTop([Top EXCEPT
                   !.buf = Inserted(Top),
                   !.alloc = IF Shape(Top.ty) \in {"BTreeMap", "BTreeSet"} THEN 1 ELSE @,
                   !.idx = NextIdx(Top),
                   !.cur = <<>>,
                   !.pc = "loop"])
            /\ UNCHANGED status
       ELSE /\ status' = "aborted"
            /\ UNCHANGED stack
    /\ UNCHANGED <<mode, ty, input, limit, bytes_read, ret, done, nextPtr>>
    /\ UNCHANGED encVars /\ UNCHANGED sessVars

\* Mutant: the value is put into the allocation handed out last, if any.
AllocReused ==
    /\ Running /\ Top.pc = "alloc"
    /\ IF nextPtr = 0
       THEN /\ nextPtr' = 1
            /\ heap' = <<Top.cur[1]>>
       ELSE /\ heap' = [heap EXCEPT ![nextPtr] = Top.cur[1]]
            /\ UNCHANGED nextPtr
    /\ ReturnWith([Top EXCEPT !.alloc = 1], [ptr |-> nextPtr', val |-> Top.cur[1]])
    /\ UNCHANGED <<mode, ty, input, limit, bytes_read, orig, first>>
    /\ UNCHANGED encVars

\* Box::try_new(t) / Rc::try_new(t) / Arc::try_new(t)
Alloc ==
    /\ Running /\ Top.pc = "alloc"
    /\ \E ok \in BOOLEAN :
       IF ok
       THEN /\ ReturnWith([Top EXCEPT !.alloc = 1],
                          [ptr |-> nextPtr + 1, val |-> Top.cur[1]])
            /\ nextPtr' = nextPtr + 1
            /\ heap' = Append(heap, Top.cur[1])
       ELSE /\ FailWith(Top, "OutOfMemory::Alloc")
            /\ UNCHANGED <<nextPtr, heap>>
    /\ UNCHANGED <<mode, ty, input, limit, bytes_read, orig, first>>
    /\ UNCHANGED encVars

\* Mutant: the decoded value is handed out as a borrow.
CowBorrowed(t) == [variant |-> "Borrowed", val |-> t]

\* Cow::Owned(t)
CowOwned(t) == [variant |-> "Owned", val |-> t]

\* Ok(Cow::Owned(t))
Own ==
    /\ Running /\ Top.pc = "own"
    /\ ReturnWith(Top, CowOwned(Top.cur[1]))
    /\ UNCHANGED <<mode, ty, input, limit, bytes_read, nextPtr>>
    /\ UNCHANGED encVars /\ UNCHANGED sessVars

\* core::str::from_utf8 over the bytes from position i.
Cont(b) == 128 <= b /\ b <= 191
RECURSIVE ValidUtf8From(_, _)
ValidUtf8From(b, i) ==
    IF i > Len(b) THEN TRUE
    ELSE LET x == b[i]
             has(n) == i + n <= Len(b)
         IN
         CASE x < 128 -> ValidUtf8From(b, i + 1)
           [] 194 <= x /\ x <= 223 ->
                has(1) /\ Cont(b[i + 1]) /\ ValidUtf8From(b, i + 2)
           [] 224 <= x /\ x <= 239 ->
                /\ has(2)
                /\ IF x = 224 THEN 160 <= b[i + 1] /\ b[i + 1] <= 191
                   ELSE IF x = 237 THEN 128 <= b[i + 1] /\ b[i + 1] <= 159
                   ELSE Cont(b[i + 1])
                /\ Cont(b[i + 2])
                /\ ValidUtf8From(b, i + 3)
           [] 240 <= x /\ x <= 244 ->
                /\ has(3)
                /\ IF x = 240 THEN 144 <= b[i + 1] /\ b[i + 1] <= 191
                   ELSE IF x = 244 THEN 128 <= b[i + 1] /\ b[i + 1] <= 143
                   ELSE Cont(b[i + 1])
                /\ Cont(b[i + 2]) /\ Cont(b[i + 3])
                /\ ValidUtf8From(b, i + 4)
           [] OTHER -> FALSE

\* Mutant: String::from_utf8_unchecked(bytes)
FromUtf8Unchecked ==
    /\ Running /\ Top.pc = "utf8"
    /\ ReturnWith(Top, Top.cur[1])
    /\ UNCHANGED <<mode, ty, input, limit, bytes_read, nextPtr>>
    /\ UNCHANGED encVars /\ UNCHANGED sessVars

\* String::from_utf8(bytes).map_err(|e| DecodeError::Utf8(e.utf8_error()))
FromUtf8 ==
    /\ Running /\ Top.pc = "utf8"
    /\ IF ValidUtf8From(Top.cur[1], 1)
       THEN ReturnWith(Top, Top.cur[1])
       ELSE FailWith(Top, "Utf8")
    /\ UNCHANGED <<mode, ty, input, limit, bytes_read, nextPtr>>
    /\ UNCHANGED encVars /\ UNCHANGED sessVars

DecodeStep ==
    \/ DecodeSliceLen
    \/ ClaimContainerRead
    \/ Reserve
    \/ LoopRelease
    \/ LoopExit
    \/ DecodePrimitive
    \/ DecodeNested
    \/ Resume
    \/ Propagate
    \/ Insert
    \/ Alloc
    \/ Own
    \/ FromUtf8

\* ------------------------------------------------------- decode sessions
\* The caller decodes the same bytes a second time, with a new decoder, while
\* the first Box / Rc / Arc is still alive.
DecodeAgain ==
    /\ status = "returned" /\ Shape(ty) \in Pointers
    /\ ret.kind = "Ok" /\ first = NoRet
    /\ first' = ret
    /\ input' = orig
    /\ bytes_read' = 0
    /\ stack' = <<NewFrame(ty)>>
    /\ ret' = NoRet
    /\ done' = <<>>
    /\ status' = "running"
    /\ UNCHANGED <<mode, ty, limit, nextPtr, heap, orig>>
    /\ UNCHANGED encVars

\* The caller writes through the second wrapper (*b = x, Rc::get_mut).
Mutate ==
    /\ status = "returned" /\ first # NoRet /\ ret.kind = "Ok"
    /\ \E x \in Items \ {heap[ret.val[1].ptr]} :
       heap' = [heap EXCEPT ![ret.val[1].ptr] = x]
    /\ status' = "mutated"
    /\ UNCHANGED <<mode, ty, input, limit, bytes_read, stack, ret, done,
                   nextPtr, orig, first>>
    /\ UNCHANGED encVars

DecodeTypes ==
    {<<"Vec", "u8">>, <<"VecDeque", "u8">>, <<"BinaryHeap", "u8">>,
     <<"BTreeMap", "u8">>, <<"BTreeSet", "u8">>, <<"BoxSlice", "u8">>,
     <<"String">>, <<"Box", "u8">>, <<"Rc", "u8">>, <<"Arc", "u8">>,
     <<"Cow", "u8">>, <<"Vec", "Vec", "u8">>, <<"BoxSlice", "Box", "u8">>,
     <<"BTreeMap", "Vec", "u8">>}

Inputs == UNION {[1..n -> Bytes] : n \in 0..MaxInput}

\* Inputs of two map entries, with the same key or not.
EntryInputs == {<<2, k1, v1, k2, v2>> : k1, k2 \in {0, 1}, v1, v2 \in {1, 2}}

InitDecode ==
    /\ mode = "decode"
    /\ ty \in DecodeTypes
    /\ input \in Inputs \cup (IF Shape(ty) = "BTreeMap" THEN EntryInputs ELSE {})
    /\ limit \in Limits
    /\ bytes_read = 0
    /\ stack = <<NewFrame(ty)>>
    /\ ret = NoRet
    /\ status = "running"
    /\ done = <<>>
    /\ nextPtr = 0 /\ heap = <<>>
    /\ orig = input /\ first = NoRet
    /\ seed = <<>> /\ value = <<>> /\ todo = <<>>
    /\ inner = <<>> /\ wres = "" /\ wlog = <<>>

\* ------------------------------------------------------------- VecWriter
\* Vec::set_len(n): the new tail is whatever the memory holds.
SetLen(v, n) == [i \in 1..n |-> IF i <= Len(v) THEN v[i] ELSE Uninit]

\* Mutant: the bytes are copied to the front of the buffer.
CopyToFront(v, start, bytes) ==
    [i \in 1..Len(v) |-> IF i <= Len(bytes) THEN bytes[i] ELSE v[i]]

\* get_unchecked_mut(start..start + bytes.len()).copy_from_slice(bytes)
CopyFromSlice(v, start, bytes) ==
    [i \in 1..Len(v) |->
        IF start < i /\ i <= start + Len(bytes) THEN bytes[i - start] ELSE v[i]]

\* Mutant: the length is set before the reservation is checked.
WriteSetLenFirst(v, bytes, ok) ==
    LET grown == SetLen(v, Len(v) + Len(bytes)) IN
    IF ok
    THEN [res |-> "Ok", inner |-> CopyFromSlice(grown, Len(v), bytes)]
    ELSE [res |-> "OutOfMemory", inner |-> grown]

\* VecWriter::write: try_reserve, then set_len and copy, or OutOfMemory.
Write(v, bytes, ok) ==
    IF ok
    THEN LET start == Len(v) IN
         [res |-> "Ok",
          inner |-> CopyFromSlice(SetLen(v, start + Len(bytes)), start, bytes)]
    ELSE [res |-> "OutOfMemory", inner |-> v]

\* try_reserve(0) asks for nothing and succeeds.
WriteOutcomes(bytes) == IF bytes = <<>> THEN {TRUE} ELSE BOOLEAN

\* ---------------------------------------------------------------- encode
\* encode_slice_len: a small count is one byte, written in one call.
LenWrite(n) == <<n>>

RECURSIVE Writes(_, _)

\* Mutant: a wrapper writes a marker byte before its inner value.
WrapperWritesTagged(t, v) == <<<<1>>>> \o Writes(Tail(t), v.val)

\* Box / Rc / Arc: T::encode(self, encoder); Cow: self.as_ref().encode(encoder)
WrapperWrites(t, v) == Writes(Tail(t), v.val)

\* <[u8] as Encode>::encode: the count, then the bytes in one call.
SliceWrites(b) == <<LenWrite(Len(b)), b>>

\* String: self.as_bytes().encode(encoder)
StringWrites(v) == SliceWrites(v)

RECURSIVE ItemWrites(_, _, _)
\* for item in self.iter() { item.encode(encoder)?; } from item i on
ItemWrites(t, v, i) ==
    IF i > Len(v) THEN <<>>
    ELSE (IF Shape(t) = "BTreeMap"
          THEN Writes(<<"u8">>, v[i][1]) \o Writes(Tail(t), v[i][2])
          ELSE Writes(Tail(t), v[i]))
         \o ItemWrites(t, v, i + 1)

\* Mutant: a collection writes its count after its elements.
WritesCountLast(t, v) ==
    CASE Shape(t) = "u8" -> <<<<v>>>>
      [] Shape(t) \in LenPrefixed -> ItemWrites(t, v, 1) \o <<LenWrite(Len(v))>>
      [] Shape(t) = "String" -> StringWrites(v)
      [] OTHER -> WrapperWrites(t, v)

\* The write calls of value.encode(encoder), in order.
Writes(t, v) ==
    CASE Shape(t) = "u8" -> <<<<v>>>>
      [] Shape(t) \in LenPrefixed -> <<LenWrite(Len(v))>> \o ItemWrites(t, v, 1)
      [] Shape(t) = "String" -> StringWrites(v)
      [] OTHER -> WrapperWrites(t, v)

\* --------------------------------------------------------- encoded values
RECURSIVE Build(_, _, _)
\* The collection after the first n insertions of s.
Build(t, s, n) ==
    IF n = 0 THEN <<>>
    ELSE LET b == Build(t, s, n - 1) IN
         CASE Shape(t) = "BinaryHeap" -> HeapPush(b, s[n])
           [] Shape(t) = "BTreeSet" -> SetInsert(b, s[n])
           [] Shape(t) = "BTreeMap" -> MapInsert(b, s[n][1], s[n][2])
           [] OTHER -> Append(b, s[n])

\* The value a seed stands for.
ValueOf(t, s) ==
    CASE Shape(t) \in Pointers -> [ptr |-> 1, val |-> s[1]]
      [] Shape(t) = "Cow" ->
            [variant |-> IF s[2] = 0 THEN "Borrowed" ELSE "Owned", val |-> s[1]]
      [] OTHER -> Build(t, s, Len(s))

SeqsOver(S) == UNION {[1..n -> S] : n \in 0..MaxItems}
TextBytes == {1, 128, 195}
InnerVecs == {<<>>, <<1>>, <<0, 2>>}

Seeds(t) ==
    CASE Shape(t) \in Pointers -> {<<x>> : x \in Items}
      [] Shape(t) = "Cow" -> {<<x, b>> : x \in Items, b \in {0, 1}}
      [] Shape(t) = "String" -> {s \in SeqsOver(TextBytes) : ValidUtf8From(s, 1)}
      [] Shape(t) = "BTreeMap" -> SeqsOver(Items \X {0, 1})
      [] Shape(Tail(t)) = "Vec" -> UNION {[1..n -> InnerVecs] : n \in 0..2}
      [] OTHER -> SeqsOver(Items)

RoundTripTypes ==
    {<<"Vec", "u8">>, <<"VecDeque", "u8">>, <<"BinaryHeap", "u8">>,
     <<"BTreeMap", "u8">>, <<"BTreeSet", "u8">>, <<"BoxSlice", "u8">>,
     <<"String">>, <<"Box", "u8">>, <<"Rc", "u8">>, <<"Arc", "u8">>,
     <<"Cow", "u8">>, <<"Vec", "Vec", "u8">>}

InitRoundTrip ==
    /\ mode = "roundtrip"
    /\ ty \in RoundTripTypes
    /\ seed \in Seeds(ty)
    /\ value = ValueOf(ty, seed)
    /\ todo = Writes(ty, value)
    /\ inner = <<>> /\ wres = "" /\ wlog = <<>>
    /\ limit \in Limits
    /\ bytes_read = 0
    /\ input = <<>> /\ stack = <<>> /\ ret = NoRet /\ done = <<>>
    /\ heap = IF Shape(ty) \in Pointers THEN <<value.val>> ELSE <<>>
    /\ nextPtr = Len(heap)
    /\ orig = <<>> /\ first = NoRet
    /\ status = "encoding"

\* One writer.write(bytes) of the encode; `?` ends the encode on an error.
EncodeWrite ==
    /\ status = "encoding" /\ todo # <<>>
    /\ \E ok \in WriteOutcomes(Head(todo)) :
       LET w == Write(inner, Head(todo), ok) IN
       /\ inner' = w.inner
       /\ wres' = w.res
       /\ IF ok
          THEN /\ todo' = Tail(todo)
               /\ wlog' = Append(wlog, Head(todo))
               /\ UNCHANGED status
          ELSE /\ status' = "encode_failed"
               /\ UNCHANGED <<todo, wlog>>
    /\ UNCHANGED <<mode, ty, seed, value>>
    /\ UNCHANGED decVars

\* encode_to_vec returns Ok(encoder.into_writer().inner); the bytes are decoded.
EncodeDone ==
    /\ status = "encoding" /\ todo = <<>>
    /\ input' = inner
    /\ orig' = inner
    /\ stack' = <<NewFrame(ty)>>
    /\ status' = "running"
    /\ UNCHANGED <<mode, ty, limit, bytes_read, ret, done, nextPtr, heap, first>>
    /\ UNCHANGED encVars

\* -------------------------------------------------------- writer sessions
Chunks == UNION {[1..n -> {1, 2}] : n \in 0..2}

InitWriter ==
    /\ mode = "writer"
    /\ ty = <<>> /\ seed = <<>> /\ value = <<>> /\ todo = <<>>
    /\ inner = <<>> /\ wres = "" /\ wlog = <<>>
    /\ limit = 0 /\ bytes_read = 0
    /\ input = <<>> /\ stack = <<>> /\ ret = NoRet /\ done = <<>>
    /\ nextPtr = 0 /\ heap = <<>>
    /\ orig = <<>> /\ first = NoRet
    /\ status = "idle"

\* Any caller's writer.write(bytes).
WriterWrite ==
    /\ mode = "writer" /\ Len(wlog) < MaxWrites
    /\ \E bytes \in Chunks : \E ok \in WriteOutcomes(bytes) :
       LET w == Write(inner, bytes, ok) IN
       /\ inner' = w.inner
       /\ wres' = w.res
       /\ wlog' = IF ok THEN Append(wlog, bytes) ELSE wlog
    /\ UNCHANGED <<mode, ty, seed, value, todo, status>>
    /\ UNCHANGED decVars

\* --------------------------------------------------------- specification
Init == InitDecode \/ InitRoundTrip \/ InitWriter

Next ==
    \/ DecodeStep \/ DecodeAgain \/ Mutate
    \/ EncodeWrite \/ EncodeDone \/ WriterWrite

Spec == Init /\ [][Next]_vars

\* ================================================================ claims
\* The concatenation of byte sequences.
RECURSIVE Flatten(_)
Flatten(ss) == IF ss = <<>> THEN <<>> ELSE Head(ss) \o Flatten(Tail(ss))

Exited == {done[i] : i \in DOMAIN done}
Active == {stack[i] : i \in DOMAIN stack}

\* How many destructions a call's slots have seen, none twice.
Destroyed(g) == Cardinality({i \in DOMAIN g.drops : g.drops[i] > 0})

\* A Vec / Box<[T]> decode that failed while decoding element k = g.idx.
FailedAtElement(g) ==
    Shape(g.ty) \in Guarded /\ g.exit # "Ok" /\ g.at = "elem"

\* C1. Partial-failure cleanup: when a Vec<T> or Box<[T]> decode of N
\* elements fails while decoding element k < N, exactly the slots 0..k-1 are
\* destroyed, each once; no slot >= k was written or destroyed; the buffer is
\* freed once; and as many elements were destroyed as were constructed.
C1_PartialFailureCleanup ==
    \A g \in Exited :
        FailedAtElement(g) =>
            /\ g.idx < g.len
            /\ Len(g.drops) = g.len
            /\ \A i \in 1..g.len :
                /\ g.drops[i] = (IF i <= g.idx THEN 1 ELSE 0)
                /\ (i > g.idx => g.buf[i] = <<>>)
            /\ g.alloc = 1 /\ g.freed = 1
            /\ g.made = g.idx
            /\ Destroyed(g) = g.made
            /\ g.guard = "unwound"

\* A Vec<Vec<u8>> decode of two elements failed on the second one.
C1_Witness ==
    \E g \in Exited :
        /\ FailedAtElement(g) /\ g.ty = <<"Vec", "Vec", "u8">>
        /\ g.len = 2 /\ g.idx = 1 /\ g.drops = <<1, 0>>

\* C2. Budget rejection without allocation: the claim comes after the length
\* is read and before any reservation, and a decode whose claim is refused
\* exits with LimitExceeded having made no reservation, no allocation, no
\* release and no element decode.
C2_BudgetRejection ==
    /\ \A f \in Active :
        Shape(f.ty) \in LenPrefixed /\ f.pc \in {"len", "claim"} =>
            f.resv = 0 /\ f.alloc = 0 /\ f.rel = 0 /\ f.tries = 0 /\ ~f.live
    /\ \A f \in Active : f.pc = "len" => f.claimed = 0
    /\ \A g \in Exited :
        Shape(g.ty) \in LenPrefixed /\ g.at = "claim" =>
            /\ g.exit = "LimitExceeded"
            /\ g.resv = 0 /\ g.alloc = 0 /\ g.freed = 0 /\ g.rel = 0
            /\ g.made = 0 /\ g.claimed = 0
            /\ ret = Err("LimitExceeded")

\* A forged count of 195 was refused at the claim of a top-level decode.
C2_Witness ==
    /\ status = "returned" /\ ret = Err("LimitExceeded")
    /\ Len(done) = 1 /\ done[1].at = "claim" /\ done[1].len = 195
    /\ done[1].ty = <<"BinaryHeap", "u8">>

\* C3. Allocation-failure surfacing: no decode of a Vec, VecDeque, BinaryHeap,
\* Box<[T]>, Box, Rc or Arc reaches a process abort; a failed reservation or
\* allocation is returned as an OutOfMemory error.
C3_Codecs == {"Vec", "VecDeque", "BinaryHeap", "BoxSlice", "Box", "Rc", "Arc"}
C3_NoAbortOnAllocFailure ==
    /\ ~(status = "aborted" /\ Shape(Top.ty) \in C3_Codecs)
    /\ \A g \in Exited :
        Shape(g.ty) \in C3_Codecs /\ g.at \in {"reserve", "alloc"} /\ g.exit # "Ok" =>
            g.exit \in {"OutOfMemory::TryReserve", "OutOfMemory::Alloc"}

\* The shape's equality between an encoded value a and a decoded value b.
RECURSIVE SameValue(_, _, _)
SameValue(t, a, b) ==
    CASE Shape(t) = "u8" -> a = b
      [] Shape(t) \in Pointers \cup {"Cow"} -> SameValue(Tail(t), a.val, b.val)
      [] Shape(t) = "String" -> a = b
      [] Shape(t) = "BinaryHeap" ->
            /\ Len(a) = Len(b)
            /\ \A x \in {a[i] : i \in DOMAIN a} \cup {b[i] : i \in DOMAIN b} :
                Cardinality({i \in DOMAIN a : a[i] = x})
                    = Cardinality({i \in DOMAIN b : b[i] = x})
      [] Shape(t) \in {"BTreeMap", "BTreeSet"} ->
            {a[i] : i \in DOMAIN a} = {b[i] : i \in DOMAIN b}
      [] OTHER ->
            /\ Len(a) = Len(b)
            /\ \A i \in DOMAIN a : SameValue(Tail(t), a[i], b[i])

RoundTripEnded == mode = "roundtrip" /\ status \in {"returned", "aborted"}

\* The decode met a refused claim or a failed allocation.
ResourceFailure ==
    \/ status = "aborted"
    \/ /\ ret.kind = "Err"
       /\ ret.err \in {"LimitExceeded", "OutOfMemory::TryReserve", "OutOfMemory::Alloc"}

C5_BudgetCeiling ==
    /\ bytes_read <= limit
    /\ \A f \in Active :
        Shape(f.ty) \in LenPrefixed /\ f.pc \notin {"len", "claim"} =>
            f.claimed = f.len * ElemSize(f.ty)
    /\ \A g \in Exited :
        g.at = "claim" => g.exit = "LimitExceeded" /\ ret = Err("LimitExceeded")
    /\ \A g \in Exited :
        g.exit = "Ok" /\ Shape(g.ty) \in LenPrefixed =>
            g.claimed = g.len * ElemSize(g.ty)

\* The outer Vec released one slice of its claim of 48 and the nested Vec's
\* claim of 195 was refused under the ceiling of 50.
C5_Witness ==
    /\ limit = 50 /\ bytes_read = 24
    /\ Len(stack) = 1 /\ stack[1].claimed = 48 /\ stack[1].rel = 1
    /\ Len(done) = 1 /\ done[1].at = "claim" /\ done[1].len = 195
    /\ ret = Err("LimitExceeded")

\* The first call that failed, if any.
FirstFailure == CHOOSE i \in DOMAIN done :
    done[i].exit # "Ok" /\ \A j \in 1..(i - 1) : done[j].exit = "Ok"
SomeFailure == \E i \in DOMAIN done : done[i].exit # "Ok"

\* Fail-fast for the failures that are returned as errors.
FailFastOnError ==
    /\ \A g \in Exited :
        g.exit # "Ok" /\ Shape(g.ty) \in LenPrefixed =>
            /\ g.at \in {"len", "claim", "reserve"} =>
                  g.rel = 0 /\ g.tries = 0 /\ g.idx = 0 /\ g.made = 0
            /\ g.at \in {"elem", "val"} =>
                  g.rel = g.idx + 1 /\ g.idx < g.len
    /\ SomeFailure =>
        /\ \A j \in DOMAIN done : j >= FirstFailure => done[j].exit = done[FirstFailure].exit
        /\ ret = Err(done[FirstFailure].exit)
        /\ \A f \in Active : f.pc \in {"elem", "val"}

\* C6. Fail-fast, single error: the first failing step of a container decode
\* (length read, claim, reservation, element decode) ends it at once; nothing
\* is decoded, released or inserted afterwards, the caller receives that one
\* error unchanged, and no container is returned.
C6_FailFastSingleError ==
    /\ FailFastOnError
    /\ ~(status = "aborted" /\ Top.pc = "reserve")

\* C7. Writer append exactness: after any sequence of successful writes the
\* buffer is the concatenation of the written byte sequences in call order.
C7_AppendExact == inner = Flatten(wlog)

\* Three writes of different lengths have been appended.
C7_Witness ==
    /\ mode = "writer" /\ wlog = <<<<1, 2>>, <<2>>, <<2, 1>>>>
    /\ inner = <<1, 2, 2, 2, 1>>

\* C8. No partial writes: a write that fails on its reservation returns
\* OutOfMemory and leaves the buffer's length and contents as they were.
C8_NoPartialWrite ==
    [][wres' = "OutOfMemory" => inner' = inner /\ wlog' = wlog]_vars

\* A write failed when two bytes had been written.
C8_Witness ==
    /\ mode = "writer" /\ wres = "OutOfMemory" /\ inner = <<1, 2>>

Ascending(q) == \A i \in 1..(Len(q) - 1) : q[i] < q[i + 1]
Sorted == {"BTreeMap", "BTreeSet"}
Keys(t, c) == IF Shape(t) = "BTreeMap" THEN [i \in DOMAIN c |-> c[i][1]] ELSE c
\* The keys the encode has written so far, in write order.
WrittenKeys ==
    IF Shape(ty) = "BTreeMap"
    THEN [i \in 1..(Len(wlog) \div 2) |-> wlog[2 * i][1]]
    ELSE [i \in 1..(Len(wlog) - 1) |-> wlog[i + 1][1]]

\* C9. Sorted-order normalization: a successfully decoded BTreeMap / BTreeSet
\* iterates in ascending key order whatever the order of the input, and the
\* encode of one writes its entries in ascending key order whatever the order
\* they were inserted in.
C9_SortedOrder ==
    /\ \A g \in Exited :
        Shape(g.ty) \in Sorted /\ g.exit = "Ok" => Ascending(Keys(g.ty, g.buf))
    /\ status = "returned" /\ ret.kind = "Ok" /\ ty # <<>> /\ Shape(ty) \in Sorted =>
        Ascending(Keys(ty, ret.val[1]))
    /\ mode = "roundtrip" /\ Shape(ty) \in Sorted =>
        Ascending(WrittenKeys) /\ Ascending(Keys(ty, value))

\* A set built by inserting 2, 0, 1 was written and read back as 0, 1, 2.
C9_Witness ==
    /\ mode = "roundtrip" /\ ty = <<"BTreeSet", "u8">> /\ seed = <<2, 0, 1>>
    /\ inner = <<3, 0, 1, 2>>
    /\ status = "returned" /\ ret = Ok(<<0, 1, 2>>)

EncodeSucceeded == mode = "roundtrip" /\ status \notin {"encoding", "encode_failed"}

\* C10. Wrappers are wire-transparent: the bytes written for Box(v), Rc(v),
\* Arc(v) or Cow(v) are the bytes written for v, and the bytes written for a
\* String are those of its UTF-8 bytes as a length-prefixed byte sequence.
C10_WireTransparent ==
    EncodeSucceeded =>
        /\ Shape(ty) \in Pointers \cup {"Cow"} =>
              inner = Flatten(Writes(Tail(ty), value.val))
        /\ Shape(ty) = "String" =>
              inner = Flatten(Writes(<<"Vec", "u8">>, value))

\* A borrowed Cow of 2 was encoded as the single byte 2.
C10_Witness ==
    /\ EncodeSucceeded /\ ty = <<"Cow", "u8">>
    /\ value = [variant |-> "Borrowed", val |-> 2] /\ inner = <<2>>

\* Well-formed UTF-8 over the bytes of the model (0, 1, 2, 0x80, 0xC3): a lead
\* byte 0xC3 is followed at once by 0x80, and 0x80 stands nowhere else.
WellFormedText(b) ==
    \A i \in DOMAIN b :
        /\ b[i] \in {0, 1, 2, 128, 195}
        /\ b[i] = 195 => i < Len(b) /\ b[i + 1] = 128
        /\ b[i] = 128 => i > 1 /\ b[i - 1] = 195

\* C11. Text validation ordering: a String decode returns the Utf8 error
\* exactly when its byte-sequence decode succeeded and the bytes are not
\* well-formed UTF-8; a failure of the byte-sequence decode is returned
\* unchanged and validation never runs; well-formed bytes give the string of
\* exactly those bytes.
C11_Utf8AfterBytes ==
    \A i \in DOMAIN done :
        done[i].ty = <<"String">> =>
            /\ i > 1 /\ done[i - 1].ty = <<"Vec", "u8">>
            /\ LET g == done[i]
                   b == done[i - 1]
               IN
               /\ g.exit = "Utf8" <=> b.exit = "Ok" /\ ~WellFormedText(b.got)
               /\ b.exit # "Ok" =>
                     g.exit = b.exit /\ g.at = "elem" /\ g.cur = <<>>
               /\ b.exit = "Ok" =>
                     g.at = "utf8" /\ g.cur = <<b.got>> /\ Len(b.got) = b.len
               /\ b.exit = "Ok" /\ WellFormedText(b.got) =>
                     g.exit = "Ok" /\ ret = Ok(b.got)
               /\ g.exit # "Ok" => ret = Err(g.exit)

\* The bytes 1, 0xC3 were decoded in full and then refused as text.
C11_Witness ==
    /\ mode = "decode" /\ ty = <<"String">> /\ orig = <<2, 1, 195>>
    /\ Len(done) = 2 /\ done[1].exit = "Ok" /\ done[1].got = <<1, 195>>
    /\ done[2].at = "utf8" /\ ret = Err("Utf8")

\* The allocations of the wrappers in a decoded value.
RECURSIVE PtrsOf(_, _)
PtrsOf(t, v) ==
    CASE Shape(t) \in Pointers -> <<v.ptr>> \o PtrsOf(Tail(t), v.val)
      [] Shape(t) \in Guarded -> Flatten([i \in DOMAIN v |-> PtrsOf(Tail(t), v[i])])
      [] OTHER -> <<>>

\* No allocation occurs twice in p.
Distinct(p) == \A i, j \in DOMAIN p : i # j => p[i] # p[j]

\* C12. Pointer non-aliasing: every successful Box / Rc / Arc decode makes
\* one fresh allocation, after its inner value is decoded; decoding the same
\* bytes twice gives two wrappers whose allocations differ from each other
\* and from every allocation that existed before, and a change made through
\* one is not seen through the other.
C12_FreshAllocation ==
    /\ nextPtr = Len(heap)
    /\ \A g \in Exited \cup Active :
        Shape(g.ty) \in Pointers =>
            /\ g.alloc = 1 <=> g.exit = "Ok"
            /\ g.exit = "Ok" => g.at = "alloc" /\ g.made = 1 /\ g.tries = 1
            /\ g.pc = "elem" => g.alloc = 0
    /\ ret.kind = "Ok" /\ stack = <<>> /\ Shape(ty) \in Guarded \cup Pointers =>
        /\ Distinct(PtrsOf(ty, ret.val[1]))
        /\ \A i \in DOMAIN PtrsOf(ty, ret.val[1]) :
               PtrsOf(ty, ret.val[1])[i] \in DOMAIN heap
    /\ ret.kind = "Ok" /\ stack = <<>> /\ Shape(ty) \in Pointers =>
        /\ mode = "roundtrip" => ret.val[1].ptr # value.ptr
        /\ first # NoRet =>
            /\ ret.val[1].ptr # first.val[1].ptr
            /\ ret.val[1].val = first.val[1].val
            /\ heap[first.val[1].ptr] = first.val[1].val
        /\ status = "mutated" =>
            /\ heap[ret.val[1].ptr] # ret.val[1].val
            /\ mode = "roundtrip" => heap[value.ptr] = value.val

\* The byte 2 was decoded into two Rc's, and the second was then set to 0.
C12_Witness ==
    /\ mode = "decode" /\ ty = <<"Rc", "u8">> /\ orig = <<2>>
    /\ first = Ok([ptr |-> 1, val |-> 2]) /\ ret = Ok([ptr |-> 2, val |-> 2])
    /\ status = "mutated" /\ heap = <<2, 0>>

\* One step of the guard of the call at depth i: armed with count 0 by the
\* statement that builds it, count k to k + 1 by a slot write, and otherwise
\* left as it is.
GuardStep(i) ==
    LET f == stack[i]
        g == stack'[i]
    IN
    IF i = Len(stack) /\ f.pc = "reserve"
    THEN f.guard = "none" /\ g.guard = "armed" /\ g.idx = 0
    ELSE IF i = Len(stack) /\ f.pc = "insert"
    THEN /\ f.guard = "armed" /\ g.guard = "armed"
         /\ f.idx < f.len /\ g.idx = f.idx + 1
         /\ g.buf[g.idx] = f.cur
    ELSE g.guard = f.guard /\ g.idx = f.idx /\ g.buf = f.buf

\* The step that ends the top call: a guard that was never built stays so, an
\* armed guard is disarmed at count N with nothing destroyed, or it unwinds
\* and destroys the slots below its count.
GuardExit ==
    LET f == Top
        g == done'[Len(done')]
    IN
    /\ Len(done') = Len(done) + 1 /\ g.idx = f.idx /\ g.len = f.len
    /\ \/ f.guard = "none" /\ g.guard = "none" /\ g.exit # "Ok"
       \/ /\ f.guard = "armed" /\ g.guard = "disarmed" /\ g.exit = "Ok"
          /\ f.idx = f.len /\ Destroyed(g) = 0
       \/ /\ f.guard = "armed" /\ g.guard = "unwound" /\ g.exit # "Ok"
          /\ \A k \in 1..f.len : g.drops[k] = IF k <= f.idx THEN 1 ELSE 0

\* C13. Guard state machine: the drop guard of a Vec / Box<[T]> decode starts
\* armed with count 0; its count goes from k to k + 1 on a slot write and in
\* no other way; it is disarmed only at count N, without cleanup; an error
\* exit unwinds it, destroying slots 0..k-1; and a disarmed or unwound guard
\* never changes again.
C13_GuardStateMachine ==
    [][/\ \A i \in DOMAIN stack \cap DOMAIN stack' :
              Shape(stack[i].ty) \in Guarded => GuardStep(i)
       /\ Len(stack') < Len(stack) /\ Shape(Top.ty) \in Guarded => GuardExit
       /\ \A i \in DOMAIN done \cap DOMAIN done' : done'[i] = done[i]
       /\ \A i \in DOMAIN stack' \ DOMAIN stack :
              stack'[i].guard = "none" /\ stack'[i].idx = 0]_vars

\* An inner Vec of two elements was completed and disarmed; the outer Vec
\* then failed at its second element and unwound with count 1.
C13_Witness ==
    \E g, h \in Exited :
        /\ g.ty = <<"Vec", "u8">> /\ g.guard = "disarmed" /\ g.idx = 2
        /\ h.ty = <<"Vec", "Vec", "u8">> /\ h.guard = "unwound"
        /\ h.idx = 1 /\ h.len = 2

\* The call that returned last.
LastExit == done[Len(done)]

\* C14. Partial-buffer invariant: at every step of a Vec / Box<[T]> decode of
\* count N with k slots written, 0 <= k <= N; slots 0..k-1 hold the first k
\* decoded elements in decode order and slots k..N-1 were never written; a
\* slot is written only at an index k < N; and on success k = N and the
\* returned container is the N decoded elements in decode order.
C14_PartialBuffer ==
    /\ \A f \in Active \cup Exited :
        Shape(f.ty) \in Guarded /\ f.guard # "none" =>
            /\ 0 <= f.idx /\ f.idx <= f.len /\ Len(f.buf) = f.len
            /\ Len(f.got) \in {f.idx, f.idx + 1}
            /\ \A i \in 1..f.len :
                   f.buf[i] = IF i <= f.idx THEN <<f.got[i]>> ELSE <<>>
            /\ f.pc = "insert" => f.idx < f.len /\ f.cur = <<f.got[f.idx + 1]>>
            /\ f.exit = "Ok" => f.idx = f.len /\ Len(f.got) = f.len
    /\ ty \in {<<"Vec", "u8">>, <<"BoxSlice", "u8">>} =>
        \A f \in Active \cup Exited :
            \A i \in DOMAIN f.got : f.got[i] = orig[i + 1]
    /\ ret.kind = "Ok" /\ done # <<>> /\ Shape(LastExit.ty) \in Guarded =>
        /\ Len(ret.val[1]) = LastExit.len
        /\ ret.val[1] = LastExit.got

\* Of the two elements 1, 0 of a Box<[u8]> the first is in slot 0 and the
\* second is decoded and about to be written to slot 1.
C14_Witness ==
    /\ mode = "decode" /\ ty = <<"BoxSlice", "u8">> /\ orig = <<2, 1, 0>>
    /\ stack # <<>> /\ Top.pc = "insert" /\ Top.idx = 1
    /\ Top.buf = <<<<1>>, <<>>>> /\ Top.cur = <<0>>

\* Element decodes per loop iteration: a map entry is a key and a value.
PerEntry(f) == IF Shape(f.ty) = "BTreeMap" THEN 2 ELSE 1

\* C15. Release protocol: a length-prefixed decode releases once per element
\* attempted, each time the per-element amount of its claim, before that
\* element's decode begins and after the previous element is inserted; a
\* success with count N has made N releases adding up to the claim, and a
\* failure at element k has made k + 1.
C15_ReleaseProtocol ==
    \A f \in Active \cup Exited :
        Shape(f.ty) \in LenPrefixed =>
            /\ f.relAmt * f.len = f.claimed * f.rel
            /\ f.tries <= PerEntry(f) * f.rel
            /\ f.exit = "" =>
                /\ f.pc \in {"len", "claim", "reserve"} => f.rel = 0
                /\ f.pc = "loop" => f.rel = f.idx /\ f.tries = PerEntry(f) * f.idx
                /\ f.pc \in {"elem", "val", "insert"} => f.rel = f.idx + 1
            /\ f.exit = "Ok" => f.rel = f.len /\ f.relAmt = f.claimed
            /\ f.exit \notin {"", "Ok"} =>
                /\ f.at \in {"len", "claim", "reserve"} => f.rel = 0
                /\ f.at \in {"elem", "val"} => f.rel = f.idx + 1 /\ f.idx < f.len

\* A map of two entries failed on the value of its second entry (k = 1),
\* after two releases.
C15_Witness ==
    /\ mode = "decode" /\ ty = <<"BTreeMap", "u8">> /\ orig = <<2, 0, 1, 2>>
    /\ Len(done) = 1 /\ done[1].exit = "UnexpectedEnd" /\ done[1].at = "val"
    /\ done[1].idx = 1 /\ done[1].rel = 2 /\ done[1].relAmt = 4

\* The wire layout of a collection of the model: the count, then the
\* elements in iteration order (a map entry as key, value; an inner Vec as
\* its own count and elements).
Layout(t, v) ==
    <<Len(v)>> \o
    (IF Shape(t) = "BTreeMap"
     THEN [i \in 1..(2 * Len(v)) |-> v[(i + 1) \div 2][2 - (i % 2)]]
     ELSE IF Tail(t) = <<"u8">>
     THEN v
     ELSE Flatten([i \in DOMAIN v |-> <<Len(v[i])>> \o v[i]]))

\* C16. Encode wire layout: a collection's encode writes its count and then
\* each element once, in iteration order, and nothing else; when a write
\* fails the encode stops there with that error and writes no later element.
C16_EncodeLayout ==
    mode = "roundtrip" /\ Shape(ty) \in LenPrefixed =>
        LET L == Layout(ty, value) IN
        /\ Len(inner) <= Len(L) /\ inner = SubSeq(L, 1, Len(inner))
        /\ inner = Flatten(wlog)
        /\ wlog # <<>> => wlog[1] = <<Len(value)>>
        /\ status = "encoding" /\ todo = <<>> => inner = L
        /\ EncodeSucceeded => inner = L /\ wres = "Ok"
        /\ status = "encode_failed" =>
              /\ wres = "OutOfMemory" /\ todo # <<>>
              /\ Len(inner) < Len(L)
              /\ stack = <<>> /\ ret = NoRet

\* Encoding the Vec 2, 0, 1 failed at its second element: the count and the
\* first element are written, the rest is not.
C16_Witness ==
    /\ mode = "roundtrip" /\ ty = <<"Vec", "u8">> /\ value = <<2, 0, 1>>
    /\ status = "encode_failed" /\ wres = "OutOfMemory"
    /\ inner = <<3, 2>> /\ Len(todo) = 2

OutOfMemoryErrors == {"OutOfMemory::TryReserve", "OutOfMemory::Alloc"}

\* C17 as stated. Out-of-memory kind: a failure to reserve a collection's
\* element buffer (Vec, VecDeque and Box<[T]> included) is reported as
\* OutOfMemory::TryReserve, and a failure to allocate a single Box / Rc / Arc
\* value as OutOfMemory::Alloc.
C17_BufferFailureIsTryReserve ==
    \A g \in Exited :
        /\ g.at = "reserve" => g.exit = "OutOfMemory::TryReserve"
        /\ g.at = "alloc" /\ g.exit # "Ok" => g.exit = "OutOfMemory::Alloc"

\* C17, amended. Out-of-memory kind: a failed try_reserve of a Vec or VecDeque
\* is reported as OutOfMemory::TryReserve; a failed allocation of a Box<[T]>
\* buffer or of a single Box / Rc / Arc value is reported as
\* OutOfMemory::Alloc; and no other statement raises an out-of-memory error.
C17_OutOfMemoryKind ==
    /\ \A g \in Exited :
        /\ g.at = "reserve" =>
              /\ Shape(g.ty) \in {"Vec", "VecDeque", "BoxSlice"}
              /\ g.tries = 0 /\ g.resv = 1
              /\ Shape(g.ty) \in {"Vec", "VecDeque"} =>
                    g.exit = "OutOfMemory::TryReserve"
              /\ Shape(g.ty) = "BoxSlice" => g.exit = "OutOfMemory::Alloc"
        /\ g.at = "alloc" /\ g.exit # "Ok" =>
              Shape(g.ty) \in Pointers /\ g.exit = "OutOfMemory::Alloc"
        /\ g.exit \in OutOfMemoryErrors => g.at \in {"reserve", "alloc", "elem", "val"}
    /\ \A i \in DOMAIN done :
        done[i].exit \in OutOfMemoryErrors /\ done[i].at \in {"elem", "val"} =>
            i > 1 /\ done[i - 1].exit = done[i].exit

\* The buffer of a Box<[u8]> of two elements could not be allocated.
C17_Witness ==
    /\ mode = "decode" /\ ty = <<"BoxSlice", "u8">> /\ orig = <<2, 0, 1>>
    /\ Len(done) = 1 /\ done[1].at = "reserve"
    /\ ret = Err("OutOfMemory::Alloc")

\* C18. Cow decode is always owned: a successful Cow decode yields the Owned
\* variant holding the decoded value, whether the encoded Cow was Borrowed or
\* Owned; a failure of the inner decode is returned unchanged and no Cow is
\* produced.
C18_CowAlwaysOwned ==
    /\ \A g \in Exited :
        Shape(g.ty) = "Cow" =>
            /\ g.exit = "Ok" <=> g.at = "own"
            /\ g.exit = "Ok" => g.made = 1 /\ Len(g.got) = 1
            /\ g.exit # "Ok" =>
                  /\ g.at = "elem" /\ g.made = 0
                  /\ g.exit \in {"LimitExceeded", "UnexpectedEnd"}
    /\ stack = <<>> /\ ty # <<>> /\ Shape(ty) = "Cow" /\ done # <<>> =>
        /\ ret.kind = "Ok" =>
              /\ ret.val[1].variant = "Owned"
              /\ ret.val[1].val = LastExit.got[1]
              /\ ret.val[1].val = orig[1]
              /\ mode = "roundtrip" => ret.val[1].val = value.val
        /\ ret.kind = "Err" =>
              ret = Err(LastExit.exit) /\ ret.val = <<>>

\* A borrowed Cow of 2 was encoded and read back as an owned Cow of 2.
C18_Witness ==
    /\ mode = "roundtrip" /\ ty = <<"Cow", "u8">>
    /\ value = [variant |-> "Borrowed", val |-> 2]
    /\ status = "returned" /\ ret = Ok([variant |-> "Owned", val |-> 2])

\* C19. Budget never over-credited: what a container decode has released
\* never exceeds what it claimed, so the amount charged to the budget never
\* falls below zero (the remaining budget never rises above its ceiling); and
\* after a successful container decode its claim and its releases net to
\* zero, leaving only the charges of the elements themselves.
C19_NoOverCredit ==
    /\ bytes_read >= 0
    /\ \A f \in Active \cup Exited :
        Shape(f.ty) \in LenPrefixed =>
            /\ f.relAmt <= f.claimed
            /\ f.exit = "Ok" => f.claimed - f.relAmt = 0
    /\ /\ status = "returned" /\ ret.kind = "Ok"
       /\ Shape(ty) \in LenPrefixed /\ Tail(ty) = <<"u8">>
       => bytes_read = LastExit.tries

\* A Vec of two bytes was decoded: two bytes claimed, two released, and the
\* two bytes of the elements charged.
C19_Witness ==
    /\ mode = "decode" /\ ty = <<"Vec", "u8">> /\ orig = <<2, 0, 1>>
    /\ status = "returned" /\ ret = Ok(<<0, 1>>)
    /\ done[1].claimed = 2 /\ done[1].relAmt = 2 /\ bytes_read = 2

\* The keys a call decoded, in decode order.
DecodedKeys(g) ==
    [j \in 1..(Len(g.got) \div PerEntry(g)) |-> g.got[PerEntry(g) * (j - 1) + 1]]

\* The entry of a decoded key that came last in the input.
LastOccurrence(g, k) ==
    CHOOSE j \in DOMAIN DecodedKeys(g) :
        /\ DecodedKeys(g)[j] = k
        /\ \A h \in DOMAIN DecodedKeys(g) : DecodedKeys(g)[h] = k => h <= j

\* C20. Decoded length versus count: a successful decode with count N yields
\* exactly N elements for Vec, VecDeque, BinaryHeap and Box<[T]>; a BTreeMap /
\* BTreeSet decode decodes all N entries and yields one entry per distinct
\* key, so at most N and exactly N when the keys are pairwise distinct, and a
\* map gives each key the value of its last occurrence.
C20_LengthVersusCount ==
    \A i \in DOMAIN done :
        LET g == done[i] IN
        Shape(g.ty) \in LenPrefixed /\ g.exit = "Ok" =>
            /\ Len(g.got) = PerEntry(g) * g.len
            /\ Shape(g.ty) \notin Sorted => Len(g.buf) = g.len
            /\ Shape(g.ty) \in Sorted =>
                  /\ {Keys(g.ty, g.buf)[j] : j \in DOMAIN g.buf}
                        = {DecodedKeys(g)[j] : j \in DOMAIN DecodedKeys(g)}
                  /\ Distinct(Keys(g.ty, g.buf))
                  /\ Len(g.buf) <= g.len
                  /\ Len(g.buf) = g.len <=> Distinct(DecodedKeys(g))
            /\ Shape(g.ty) = "BTreeMap" =>
                  \A j \in DOMAIN g.buf :
                      g.buf[j][2] = g.got[2 * LastOccurrence(g, g.buf[j][1])]
            /\ i = Len(done) /\ ret.kind = "Ok" => Len(ret.val[1]) = Len(g.buf)

\* A map input of two entries with the same key 1 gave a map of one entry,
\* holding the second value.
C20_Witness ==
    /\ mode = "decode" /\ ty = <<"BTreeMap", "u8">> /\ orig = <<2, 1, 1, 1, 2>>
    /\ status = "returned" /\ ret = Ok(<<<<1, 2>>>>)
    /\ done[1].len = 2 /\ done[1].made = 4

====
